---- MODULE Spec2Model ----
(***************************************************************************)
(* Risk engine of the trading bot: StopLossManager, KellyCriterion,        *)
(* PositionSizer, PortfolioRisk and RiskManager (src/src/risk).            *)
(*                                                                         *)
(* Numbers.  The code computes in binary floating point.  The model        *)
(* computes exactly: prices, quantities and account values are integers,   *)
(* every configured fraction is held in percent (0.02 is 2), and a         *)
(* quotient is kept as a pair <<numerator, denominator>> and compared by   *)
(* cross-multiplication.  A stop price is held in hundredths               *)
(* (price * 97 stands for price * 0.97).                                   *)
(*                                                                         *)
(* Python values.  None is the empty sequence <<>> and a supplied value v  *)
(* is <<v>> wherever an argument or a column is optional; a (bool, reason) *)
(* pair is a tuple whose reason is the message (up to its formatted        *)
(* number where the number depends on the arguments), "None" when the code *)
(* returns None.  A call that raises has the result Raise(exception name). *)
(***************************************************************************)
EXTENDS Integers, Sequences, FiniteSets, TLC

VARIABLES
    trailing_stops, \* StopLossManager.trailing_stops: symbol -> stop (hundredths)
    entry_times,    \* StopLossManager.entry_times: symbol -> entry time (hours)
    now,            \* the clock datetime.now() reads, in hours
    last,           \* the last call: [op, args, res], res Pending until it ends
    db,             \* the persistence collaborator's rows
    pc,             \* position of can_open_position: "idle" or the gate it is at
    evaluated,      \* the gates the last can_open_position has evaluated, in order
    threads         \* the calls in progress on a StopLossManager shared by threads

vars == <<trailing_stops, entry_times, now, last, db, pc, evaluated, threads>>

stopVars == <<trailing_stops, entry_times, now, threads>>
riskVars == <<db, pc, evaluated>>

----------------------------------------------------------------------------
(* Settings (src/src/config/settings.py), in percent.                      *)

max_position_size == 2
max_portfolio_exposure == 50
daily_loss_limit == 5
max_drawdown_limit == 15
max_correlation == 70
stop_loss_percentage == 2
take_profit_percentage == 5
trailing_stop_percentage == 3

----------------------------------------------------------------------------
(* Bounds of the model.                                                    *)

MaxStep == 3       \* trailing-stop prices range over 97 .. 97 + MaxStep
MaxTime == 2       \* the clock runs 0 .. MaxTime hours
MaxAccountK == 2   \* calculate_size: account values 1000 .. 1000 * MaxAccountK
MaxLot == 2        \* can_open_position: quantities 19 .. 19 + MaxLot at price 100
MaxMove == 10      \* should_exit: current price within entry +- MaxMove

Symbols == {"AAPL", "MSFT"}
TrailPrices == 97 .. (97 + MaxStep)
HoldHours == {0, 1}

None == <<>>
Some(v) == <<v>>
Return(v) == [kind |-> "return", val |-> v]
Raise(e) == [kind |-> "raise", val |-> e]
Pending == [kind |-> "pending", val |-> <<>>]
NoCall == [op |-> "none", args |-> <<>>, res |-> Return(<<>>)]

(* dict operations *)
Put(d, k, v) == [x \in (DOMAIN d) \cup {k} |-> IF x = k THEN v ELSE d[x]]
Del(d, k) == [x \in (DOMAIN d) \ {k} |-> d[x]]
EmptyDict == [x \in {} |-> 0]

----------------------------------------------------------------------------
(* StopLossManager (src/src/risk/stop_loss.py)                             *)

(* str.lower() on the side strings the model passes *)
Lower(side) ==
    CASE side = "BUY" -> "buy"
      [] side = "Long" -> "long"
      [] side = "SELL" -> "sell"
      [] OTHER -> side

(* _check_long_exit: pnl_pct = (current - entry) / entry *)
check_long_exit_strict(entry_price, current_price) ==
    IF entry_price = 0 THEN Raise("ZeroDivisionError")
    ELSE LET n == IF entry_price > 0 THEN current_price - entry_price
                  ELSE entry_price - current_price
             d == IF entry_price > 0 THEN entry_price ELSE -entry_price
         IN  IF n * 100 < -stop_loss_percentage * d
                 THEN Return(<<TRUE, "Stop-loss triggered">>)
             ELSE IF n * 100 > take_profit_percentage * d
                 THEN Return(<<TRUE, "Take-profit reached">>)
             ELSE Return(<<FALSE, "None">>)

check_long_exit(entry_price, current_price) ==
    IF entry_price = 0 THEN Raise("ZeroDivisionError")
    ELSE LET n == IF entry_price > 0 THEN current_price - entry_price
                  ELSE entry_price - current_price
             d == IF entry_price > 0 THEN entry_price ELSE -entry_price
         IN  IF n * 100 <= -stop_loss_percentage * d
                 THEN Return(<<TRUE, "Stop-loss triggered">>)
             ELSE IF n * 100 >= take_profit_percentage * d
                 THEN Return(<<TRUE, "Take-profit reached">>)
             ELSE Return(<<FALSE, "None">>)

(* _check_short_exit: pnl_pct = (entry - current) / entry *)
check_short_exit_unmirrored(entry_price, current_price) ==
    check_long_exit(entry_price, current_price)

check_short_exit(entry_price, current_price) ==
    IF entry_price = 0 THEN Raise("ZeroDivisionError")
    ELSE LET n == IF entry_price > 0 THEN entry_price - current_price
                  ELSE current_price - entry_price
             d == IF entry_price > 0 THEN entry_price ELSE -entry_price
         IN  IF n * 100 <= -stop_loss_percentage * d
                 THEN Return(<<TRUE, "Stop-loss triggered">>)
             ELSE IF n * 100 >= take_profit_percentage * d
                 THEN Return(<<TRUE, "Take-profit reached">>)
             ELSE Return(<<FALSE, "None">>)

should_exit_result_case_sensitive(entry_price, current_price, quantity, side) ==
    IF side = "buy" \/ side = "long"
        THEN check_long_exit(entry_price, current_price)
        ELSE check_short_exit(entry_price, current_price)

should_exit_result(entry_price, current_price, quantity, side) ==
    IF Lower(side) = "buy" \/ Lower(side) = "long"
        THEN check_long_exit(entry_price, current_price)
        ELSE check_short_exit(entry_price, current_price)

should_exit(entry_price, current_price, quantity, side) ==
    /\ last' = [op |-> "should_exit",
                args |-> <<entry_price, current_price, quantity, side>>,
                res |-> should_exit_result(entry_price, current_price, quantity, side)]
    /\ UNCHANGED <<stopVars, riskVars>>

(* current_price * (1 - trail_pct), in hundredths *)
StopFor(price) == price * (100 - trailing_stop_percentage)

update_trailing_stop_stops_lower(stops, symbol, current_price) ==
    IF symbol \notin DOMAIN stops
        THEN Put(stops, symbol, StopFor(current_price))
        ELSE LET new_stop == StopFor(current_price)
             IN  IF new_stop < stops[symbol]
                     THEN Put(stops, symbol, new_stop)
                     ELSE stops

update_trailing_stop_stops_always(stops, symbol, current_price) ==
    Put(stops, symbol, StopFor(current_price))

update_trailing_stop_stops(stops, symbol, current_price) ==
    IF symbol \notin DOMAIN stops
        THEN Put(stops, symbol, StopFor(current_price))
        ELSE LET new_stop == StopFor(current_price)
             IN  IF new_stop > stops[symbol]
                     THEN Put(stops, symbol, new_stop)
                     ELSE stops

update_trailing_stop(symbol, current_price) ==
    /\ trailing_stops' = update_trailing_stop_stops(trailing_stops, symbol, current_price)
    /\ last' = [op |-> "update_trailing_stop", args |-> <<symbol, current_price>>,
                res |-> Return(<<>>)]
    /\ UNCHANGED <<entry_times, now, threads, riskVars>>

check_trailing_stop_result_strict(stops, symbol, current_price) ==
    IF symbol \in DOMAIN stops /\ current_price * 100 < stops[symbol]
        THEN Return(<<TRUE, "Trailing stop hit">>)
        ELSE Return(<<FALSE, "None">>)

check_trailing_stop_result(stops, symbol, current_price) ==
    IF symbol \in DOMAIN stops /\ current_price * 100 <= stops[symbol]
        THEN Return(<<TRUE, "Trailing stop hit">>)
        ELSE Return(<<FALSE, "None">>)

check_trailing_stop(symbol, current_price) ==
    /\ last' = [op |-> "check_trailing_stop", args |-> <<symbol, current_price>>,
                res |-> check_trailing_stop_result(trailing_stops, symbol, current_price)]
    /\ UNCHANGED <<stopVars, riskVars>>

check_time_stop_result_inclusive(times, symbol, max_hold_hours) ==
    IF symbol \in DOMAIN times /\ now - times[symbol] >= max_hold_hours
        THEN Return(<<TRUE, "Time limit exceeded">>)
        ELSE Return(<<FALSE, "None">>)

check_time_stop_result(times, symbol, max_hold_hours) ==
    IF symbol \in DOMAIN times /\ now - times[symbol] > max_hold_hours
        THEN Return(<<TRUE, "Time limit exceeded">>)
        ELSE Return(<<FALSE, "None">>)

check_time_stop(symbol, max_hold_hours) ==
    /\ last' = [op |-> "check_time_stop", args |-> <<symbol, max_hold_hours>>,
                res |-> check_time_stop_result(entry_times, symbol, max_hold_hours)]
    /\ UNCHANGED <<stopVars, riskVars>>

register_entry_setdefault(symbol, entry_price) ==
    /\ entry_times' = Put(entry_times, symbol, now)
    /\ trailing_stops' = IF symbol \in DOMAIN trailing_stops THEN trailing_stops
                          ELSE Put(trailing_stops, symbol, StopFor(entry_price))
    /\ last' = [op |-> "register_entry", args |-> <<symbol, entry_price>>,
                res |-> Return(<<>>)]
    /\ UNCHANGED <<now, threads, riskVars>>

register_entry_time_only(symbol, entry_price) ==
    /\ entry_times' = Put(entry_times, symbol, now)
    /\ last' = [op |-> "register_entry", args |-> <<symbol, entry_price>>,
                res |-> Return(<<>>)]
    /\ UNCHANGED <<trailing_stops, now, threads, riskVars>>

register_entry(symbol, entry_price) ==
    /\ entry_times' = Put(entry_times, symbol, now)
    /\ trailing_stops' = Put(trailing_stops, symbol, StopFor(entry_price))
    /\ last' = [op |-> "register_entry", args |-> <<symbol, entry_price>>,
                res |-> Return(<<>>)]
    /\ UNCHANGED <<now, threads, riskVars>>

clear_position_stops_only(symbol) ==
    /\ trailing_stops' = IF symbol \in DOMAIN trailing_stops
                             THEN Del(trailing_stops, symbol) ELSE trailing_stops
    /\ entry_times' = entry_times
    /\ last' = [op |-> "clear_position", args |-> <<symbol>>, res |-> Return(<<>>)]
    /\ UNCHANGED <<now, threads, riskVars>>

clear_position(symbol) ==
    /\ trailing_stops' = IF symbol \in DOMAIN trailing_stops
                             THEN Del(trailing_stops, symbol) ELSE trailing_stops
    /\ entry_times' = IF symbol \in DOMAIN entry_times
                          THEN Del(entry_times, symbol) ELSE entry_times
    /\ last' = [op |-> "clear_position", args |-> <<symbol>>, res |-> Return(<<>>)]
    /\ UNCHANGED <<now, threads, riskVars>>

(* the wall clock moves between calls *)
Tick ==
    /\ now < MaxTime
    /\ now' = now + 1
    /\ UNCHANGED <<trailing_stops, entry_times, last, threads, riskVars>>

NoDb == [metrics |-> <<>>, held |-> {}, history |-> <<>>]
NoThreads == <<>>

InitStop ==
    /\ trailing_stops = EmptyDict
    /\ entry_times = EmptyDict
    /\ now = 0
    /\ last = NoCall
    /\ db = NoDb
    /\ pc = "idle"
    /\ evaluated = <<>>
    /\ threads = NoThreads

NextStop ==
    \/ \E s \in Symbols, p \in TrailPrices : register_entry(s, p)
    \/ \E s \in Symbols, p \in TrailPrices : update_trailing_stop(s, p)
    \/ \E s \in Symbols, p \in TrailPrices : check_trailing_stop(s, p)
    \/ \E s \in Symbols, h \in HoldHours : check_time_stop(s, h)
    \/ \E s \in Symbols : clear_position(s)
    \/ \E c \in {97, 100, 105} : should_exit(100, c, 10, "buy")
    \/ Tick

SpecStop == InitStop /\ [][NextStop]_vars

(***************************************************************************)
(* StopLossManager shared by threads.  The class takes no lock, so a call  *)
(* is not one step: a thread can be pre-empted between any two reads or    *)
(* writes of the dictionaries.  Each thread below makes one call; its      *)
(* record keeps the call, the statement it is at, the stop it read for the *)
(* comparison, the stop it stored and the outcome.                         *)
(***************************************************************************)
Updaters == {"U1", "U2"}
Threads == Updaters \cup {"K", "D"}
RacePrices == {98, 99}
RaceCheckPrices == {96, 100}

IdleThread == [op |-> "none", args |-> <<>>, at |-> "idle", seen |-> None, stored |-> None, res |-> Pending]

At(t, op, at) == threads[t].op = op /\ threads[t].at = at
Goto(t, at) == threads' = [threads EXCEPT ![t].at = at]
Finish(t, res) == threads' = [threads EXCEPT ![t].at = "done", ![t].res = res]

begin_call(t, op, args) ==
    /\ threads[t].at = "idle"
    /\ threads' = [threads EXCEPT ![t] = [IdleThread EXCEPT !.op = op, !.args = args, !.at = "test"]]
    /\ UNCHANGED <<trailing_stops, entry_times, now, last, riskVars>>

new_stop_is_higher_inverted(new_stop, stored) == new_stop < stored

new_stop_is_higher(new_stop, stored) == new_stop > stored

(* if symbol not in self.trailing_stops *)
update_test(t) ==
    /\ At(t, "update_trailing_stop", "test")
    /\ Goto(t, IF threads[t].args[1] \notin DOMAIN trailing_stops THEN "init" ELSE "compare")
    /\ UNCHANGED <<trailing_stops, entry_times, now, last, riskVars>>

(* self.trailing_stops[symbol] = current_price * (1 - trail_pct) *)
update_init(t) ==
    /\ At(t, "update_trailing_stop", "init")
    /\ LET symbol == threads[t].args[1]
           new_stop == StopFor(threads[t].args[2])
       IN  /\ trailing_stops' = Put(trailing_stops, symbol, new_stop)
           /\ threads' = [threads EXCEPT ![t].at = "done", ![t].stored = Some(new_stop),
                                         ![t].res = Return(<<>>)]
    /\ UNCHANGED <<entry_times, now, last, riskVars>>

(* if new_stop > self.trailing_stops[symbol] *)
update_compare(t) ==
    /\ At(t, "update_trailing_stop", "compare")
    /\ LET symbol == threads[t].args[1]
           new_stop == StopFor(threads[t].args[2])
       IN  IF symbol \notin DOMAIN trailing_stops
               THEN Finish(t, Raise("KeyError"))
               ELSE threads' = [threads EXCEPT
                        ![t].seen = Some(trailing_stops[symbol]),
                        ![t].at = IF new_stop_is_higher(new_stop, trailing_stops[symbol])
                                      THEN "log" ELSE "done",
                        ![t].res = IF new_stop_is_higher(new_stop, trailing_stops[symbol])
                                       THEN Pending ELSE Return(<<>>)]
    /\ UNCHANGED <<trailing_stops, entry_times, now, last, riskVars>>

(* the debug message formats self.trailing_stops[symbol], a second read *)
update_log(t) ==
    /\ At(t, "update_trailing_stop", "log")
    /\ IF threads[t].args[1] \notin DOMAIN trailing_stops
           THEN Finish(t, Raise("KeyError"))
           ELSE Goto(t, "write")
    /\ UNCHANGED <<trailing_stops, entry_times, now, last, riskVars>>

(* self.trailing_stops[symbol] = new_stop *)
update_write(t) ==
    /\ At(t, "update_trailing_stop", "write")
    /\ LET symbol == threads[t].args[1]
           new_stop == StopFor(threads[t].args[2])
       IN  /\ trailing_stops' = Put(trailing_stops, symbol, new_stop)
           /\ threads' = [threads EXCEPT ![t].at = "done", ![t].stored = Some(new_stop),
                                         ![t].res = Return(<<>>)]
    /\ UNCHANGED <<entry_times, now, last, riskVars>>

(* if symbol in self.trailing_stops *)
check_test(t) ==
    /\ At(t, "check_trailing_stop", "test")
    /\ IF threads[t].args[1] \in DOMAIN trailing_stops
           THEN Goto(t, "read")
           ELSE Finish(t, Return(<<FALSE, "None">>))
    /\ UNCHANGED <<trailing_stops, entry_times, now, last, riskVars>>

(* if current_price <= self.trailing_stops[symbol] *)
check_read(t) ==
    /\ At(t, "check_trailing_stop", "read")
    /\ LET symbol == threads[t].args[1]
           current_price == threads[t].args[2]
       IN  IF symbol \notin DOMAIN trailing_stops
               THEN Finish(t, Raise("KeyError"))
               ELSE /\ threads' = [threads EXCEPT
                        ![t].seen = Some(trailing_stops[symbol]),
                        ![t].at = "done",
                        ![t].res = check_trailing_stop_result(trailing_stops, symbol, current_price)]
    /\ UNCHANGED <<trailing_stops, entry_times, now, last, riskVars>>

(* if symbol in self.trailing_stops *)
clear_test_stops(t) ==
    /\ At(t, "clear_position", "test")
    /\ Goto(t, IF threads[t].args[1] \in DOMAIN trailing_stops THEN "del_stops" ELSE "test_times")
    /\ UNCHANGED <<trailing_stops, entry_times, now, last, riskVars>>

(* del self.trailing_stops[symbol] *)
clear_del_stops(t) ==
    /\ At(t, "clear_position", "del_stops")
    /\ IF threads[t].args[1] \notin DOMAIN trailing_stops
           THEN Finish(t, Raise("KeyError")) /\ UNCHANGED trailing_stops
           ELSE Goto(t, "test_times") /\ trailing_stops' = Del(trailing_stops, threads[t].args[1])
    /\ UNCHANGED <<entry_times, now, last, riskVars>>

(* if symbol in self.entry_times *)
clear_test_times(t) ==
    /\ At(t, "clear_position", "test_times")
    /\ IF threads[t].args[1] \in DOMAIN entry_times
           THEN Goto(t, "del_times")
           ELSE Finish(t, Return(<<>>))
    /\ UNCHANGED <<trailing_stops, entry_times, now, last, riskVars>>

(* del self.entry_times[symbol] *)
clear_del_times(t) ==
    /\ At(t, "clear_position", "del_times")
    /\ IF threads[t].args[1] \notin DOMAIN entry_times
           THEN Finish(t, Raise("KeyError")) /\ UNCHANGED entry_times
           ELSE Finish(t, Return(<<>>)) /\ entry_times' = Del(entry_times, threads[t].args[1])
    /\ UNCHANGED <<trailing_stops, now, last, riskVars>>

(* every symbol has been entered at 97 before the threads start *)
InitRace ==
    /\ trailing_stops = [s \in Symbols |-> StopFor(97)]
    /\ entry_times = [s \in Symbols |-> 0]
    /\ now = 0
    /\ last = NoCall
    /\ db = NoDb
    /\ pc = "idle"
    /\ evaluated = <<>>
    /\ threads = [t \in Threads |-> IdleThread]

NextRace ==
    \/ \E t \in Updaters, s \in Symbols, p \in RacePrices : begin_call(t, "update_trailing_stop", <<s, p>>)
    \/ \E s \in Symbols, p \in RaceCheckPrices : begin_call("K", "check_trailing_stop", <<s, p>>)
    \/ \E s \in Symbols : begin_call("D", "clear_position", <<s>>)
    \/ \E t \in Threads : update_test(t)
    \/ \E t \in Threads : update_init(t)
    \/ \E t \in Threads : update_compare(t)
    \/ \E t \in Threads : update_log(t)
    \/ \E t \in Threads : update_write(t)
    \/ \E t \in Threads : check_test(t)
    \/ \E t \in Threads : check_read(t)
    \/ \E t \in Threads : clear_test_stops(t)
    \/ \E t \in Threads : clear_del_stops(t)
    \/ \E t \in Threads : clear_test_times(t)
    \/ \E t \in Threads : clear_del_times(t)

SpecRace == InitRace /\ [][NextRace]_vars

----------------------------------------------------------------------------
(* KellyCriterion and PositionSizer (src/src/risk/position_sizer.py)       *)

Sign(x) == IF x < 0 THEN -1 ELSE 1
Abs(x) == IF x < 0 THEN -x ELSE x
Max(a, b) == IF a >= b THEN a ELSE b

(* a quotient n/d, d # 0, with the sign carried by the numerator *)
Frac(n, d) == <<n * Sign(d), Abs(d)>>
FLess(a, b) == a[1] * b[2] < b[1] * a[2]
FEq(a, b) == a[1] * b[2] = b[1] * a[2]

(* int(n / d): Python's int() truncates toward zero *)
TruncDiv(n, d) == Sign(n) * Sign(d) * (Abs(n) \div Abs(d))

KellyDefault == Frac(2, 100)   \* return 0.02
KellyCap == Frac(20, 100)      \* min(kelly, 0.20)

(* win_rate is w/100; fraction is a pair <<numerator, denominator>>.       *)
(* With wl = avg_win/avg_loss, (win_rate*wl - (1 - win_rate))/wl is        *)
(* (w*avg_win - (100 - w)*avg_loss) / (100*avg_win); the division by wl    *)
(* raises when avg_win is 0.                                               *)
calculate_result(w, avg_win, avg_loss, fraction) ==
    IF avg_loss = 0 \/ w = 0 \/ w = 100 THEN Return(KellyDefault)
    ELSE IF avg_win = 0 THEN Raise("ZeroDivisionError")
    ELSE LET kelly == Frac((w * avg_win - (100 - w) * avg_loss) * fraction[1],
                           100 * avg_win * fraction[2])
             capped == IF FLess(KellyCap, kelly) THEN KellyCap ELSE kelly
         IN  Return(IF FLess(capped, Frac(0, 1)) THEN Frac(0, 1) ELSE capped)

HalfKelly == <<1, 2>>          \* fraction: float = 0.5

calculate(w, avg_win, avg_loss) ==
    /\ last' = [op |-> "calculate", args |-> <<w, avg_win, avg_loss>>,
                res |-> calculate_result(w, avg_win, avg_loss, HalfKelly)]
    /\ UNCHANGED <<stopVars, riskVars>>

(* _fixed_percentage_size: int(account_value * risk_pct / price) *)
fixed_percentage_size(price, account_value, risk_pct) ==
    TruncDiv(account_value * risk_pct, 100 * price)

(* _volatility_adjusted_size: int(account_value * max_risk / (2 * volatility)) *)
volatility_adjusted_size(price, account_value, volatility, max_risk) ==
    IF volatility = 0 THEN fixed_percentage_size(price, account_value, max_risk)
    ELSE TruncDiv(account_value * max_risk, 100 * 2 * volatility)

(* _kelly_size: int(account_value * kelly_fraction / price) *)
kelly_size(price, account_value, kelly_fraction) ==
    TruncDiv(account_value * kelly_fraction[1], kelly_fraction[2] * price)

Truthy(opt) == opt # None /\ opt[1] # 0

(* the list `methods` calculate_size builds, in the order it appends *)
calculate_size_methods(price, account_value, max_risk_per_trade, volatility, win_rate, avg_win, avg_loss) ==
    <<[name |-> "Fixed %",
       size |-> fixed_percentage_size(price, account_value, max_risk_per_trade)]>>
    \o (IF Truthy(volatility)
           THEN <<[name |-> "Volatility",
                   size |-> volatility_adjusted_size(price, account_value,
                                volatility[1], max_risk_per_trade)]>>
           ELSE <<>>)
    \o (IF Truthy(win_rate) /\ Truthy(avg_win) /\ Truthy(avg_loss)
           THEN <<[name |-> "Kelly",
                   size |-> kelly_size(price, account_value,
                                calculate_result(win_rate[1], avg_win[1], avg_loss[1],
                                                 HalfKelly).val)]>>
           ELSE <<>>)

(* min(methods, key=lambda x: x[1])[1] *)
MinSize(methods) ==
    CHOOSE m \in {methods[i].size : i \in DOMAIN methods} :
        \A i \in DOMAIN methods : m <= methods[i].size

MaxSize(methods) ==
    CHOOSE m \in {methods[i].size : i \in DOMAIN methods} :
        \A i \in DOMAIN methods : m >= methods[i].size

choose_size_unfloored(methods) == MinSize(methods)

choose_size_largest(methods) == Max(1, MaxSize(methods))

(* return max(1, int(size)) for the smallest candidate *)
choose_size(methods) == Max(1, MinSize(methods))

calculate_size_result(price, account_value, max_risk_per_trade, volatility, win_rate, avg_win, avg_loss) ==
    IF price = 0 THEN Raise("ZeroDivisionError")
    ELSE Return(choose_size(calculate_size_methods(price, account_value,
                    max_risk_per_trade, volatility, win_rate, avg_win, avg_loss)))

calculate_size(price, account_value, max_risk_per_trade, volatility, win_rate, avg_win, avg_loss) ==
    /\ last' = [op |-> "calculate_size",
                args |-> <<price, account_value, max_risk_per_trade,
                           volatility, win_rate, avg_win, avg_loss>>,
                res |-> calculate_size_result(price, account_value,
                            max_risk_per_trade, volatility, win_rate, avg_win, avg_loss)]
    /\ UNCHANGED <<stopVars, riskVars>>

(* RiskManager.calculate_position_size (src/src/risk/manager.py): the      *)
(* sizer called with max_risk_per_trade = settings.max_position_size       *)
calculate_position_size_result(symbol, price, account_value, volatility, win_rate, avg_win, avg_loss) ==
    calculate_size_result(price, account_value, max_position_size,
                          volatility, win_rate, avg_win, avg_loss)

calculate_position_size(symbol, price, account_value, volatility, win_rate, avg_win, avg_loss) ==
    /\ last' = [op |-> "calculate_position_size",
                args |-> <<symbol, price, account_value,
                           volatility, win_rate, avg_win, avg_loss>>,
                res |-> calculate_position_size_result(symbol, price, account_value,
                            volatility, win_rate, avg_win, avg_loss)]
    /\ UNCHANGED <<stopVars, riskVars>>

(* PortfolioRisk.check_exposure_limit (src/src/risk/portfolio_risk.py):    *)
(* exposure_ratio = new_position_value / account_value; ratio <= limit     *)
check_exposure_limit_strict(new_position_value, account_value) ==
    IF account_value = 0 THEN Raise("ZeroDivisionError")
    ELSE Return(FLess(Frac(new_position_value, account_value),
                      Frac(max_portfolio_exposure, 100)))

(* new_exposure <= limit for new_exposure = new_position_value / account_value, *)
(* the limit in percent                                                    *)
exposure_within(new_position_value, account_value, limit) ==
    ~FLess(Frac(limit, 100), Frac(new_position_value, account_value))

check_exposure_limit(new_position_value, account_value) ==
    IF account_value = 0 THEN Raise("ZeroDivisionError")
    ELSE Return(exposure_within(new_position_value, account_value, max_portfolio_exposure))

call_check_exposure_limit(new_position_value, account_value) ==
    /\ last' = [op |-> "check_exposure_limit",
                args |-> <<new_position_value, account_value>>,
                res |-> check_exposure_limit(new_position_value, account_value)]
    /\ UNCHANGED <<stopVars, riskVars>>

(* inputs of the pure calls *)
Sides == {"buy", "BUY", "long", "Long", "sell", "SELL", "short", "", "hold"}
EntryPrices == {50, 100, 200}
WinRates == {0, 30, 55, 60, 80, 100}
AvgWins == {0, 100, 150, 200}
AvgLosses == {0, 100}
SizerPrices == {100, 175, 10000}
SizerAccounts == {1000 * k : k \in 1 .. MaxAccountK} \cup {100000}
RiskPcts == {-1, 0, 1, 2, 10, 25}
Volatilities == {None, Some(0), Some(-5), Some(5), Some(2000)}
Opt(S) == {None} \cup {Some(v) : v \in S}
ExposureAccounts == {0, 1, 2, 100000} \cup {1000 * k : k \in 1 .. MaxAccountK}
ExposureValues ==
    {0, 1, 2, 49999, 50000, 50001, 61250, 100000} \cup {500 * k : k \in 1 .. MaxAccountK}

(* a call that has been made and has not returned *)
PureCalls ==
    [op : {"should_exit"},
     args : {<<e, e + m, q, side>> : e \in EntryPrices, m \in (-MaxMove) .. MaxMove,
                                     q \in {1, 10}, side \in Sides},
     res : {Pending}]
    \cup
    [op : {"calculate"},
     args : WinRates \X AvgWins \X AvgLosses,
     res : {Pending}]
    \cup
    [op : {"calculate_size"},
     args : SizerPrices \X SizerAccounts \X RiskPcts \X Volatilities
            \X Opt({0, 55, 80}) \X Opt({0, 150}) \X Opt({0, 100}),
     res : {Pending}]
    \cup
    [op : {"check_exposure_limit"},
     args : ExposureValues \X ExposureAccounts,
     res : {Pending}]
    \cup
    [op : {"calculate_position_size"},
     args : {"AAPL"} \X SizerPrices \X SizerAccounts \X Volatilities
            \X Opt({0, 55, 80}) \X Opt({0, 150}) \X Opt({0, 100}),
     res : {Pending}]

InitPure ==
    /\ trailing_stops = EmptyDict
    /\ entry_times = EmptyDict
    /\ now = 0
    /\ last \in PureCalls
    /\ db = NoDb
    /\ pc = "idle"
    /\ evaluated = <<>>
    /\ threads = NoThreads

NextPure ==
    \/ /\ last.op = "should_exit" /\ last.res = Pending
       /\ should_exit(last.args[1], last.args[2], last.args[3], last.args[4])
    \/ /\ last.op = "calculate" /\ last.res = Pending
       /\ calculate(last.args[1], last.args[2], last.args[3])
    \/ /\ last.op = "calculate_size" /\ last.res = Pending
       /\ calculate_size(last.args[1], last.args[2], last.args[3], last.args[4],
                         last.args[5], last.args[6], last.args[7])
    \/ /\ last.op = "check_exposure_limit" /\ last.res = Pending
       /\ call_check_exposure_limit(last.args[1], last.args[2])
    \/ /\ last.op = "calculate_position_size" /\ last.res = Pending
       /\ calculate_position_size(last.args[1], last.args[2], last.args[3], last.args[4],
                                  last.args[5], last.args[6], last.args[7])

SpecPure == InitPure /\ [][NextPure]_vars

----------------------------------------------------------------------------
(* PortfolioRisk (src/src/risk/portfolio_risk.py)                          *)

RECURSIVE Gcd(_, _)
Gcd(a, b) == IF b = 0 THEN a ELSE Gcd(b, a % b)
Lcm(a, b) == (a * b) \div Gcd(a, b)
RECURSIVE LcmOf(_)
LcmOf(seq) == IF seq = <<>> THEN 1 ELSE Lcm(Head(seq), LcmOf(Tail(seq)))
RECURSIVE SumOf(_)
SumOf(seq) == IF seq = <<>> THEN 0 ELSE Head(seq) + SumOf(Tail(seq))

(* prices[-n:] *)
LastN(prices, n) == SubSeq(prices, Len(prices) - n + 1, Len(prices))

(* np.diff(prices) / prices[:-1], every return multiplied by the least     *)
(* common multiple of the divisors (a correlation does not change when a   *)
(* series is multiplied by a positive number)                              *)
Returns(prices) ==
    LET n == Len(prices) - 1
        m == LcmOf(SubSeq(prices, 1, n))
    IN  [i \in 1 .. n |-> (prices[i + 1] - prices[i]) * (m \div prices[i])]

(* _calculate_correlation.  The coefficient is c / sqrt(vx * vy), kept as  *)
(* [c, vx, vy]; 0.0 is [c |-> 0, vx |-> 1, vy |-> 1].  np.corrcoef gives    *)
(* nan when a series of returns has no variance, and nan becomes 0.0.      *)
ZeroCorr == [c |-> 0, vx |-> 1, vy |-> 1]

calculate_correlation(prices1, prices2) ==
    IF prices1 = <<>> \/ prices2 = <<>> THEN ZeroCorr
    ELSE LET min_len == IF Len(prices1) <= Len(prices2) THEN Len(prices1) ELSE Len(prices2)
         IN  IF min_len < 5 THEN ZeroCorr
             ELSE LET x == Returns(LastN(prices1, min_len))
                      y == Returns(LastN(prices2, min_len))
                      n == min_len - 1
                      c == n * SumOf([i \in 1 .. n |-> x[i] * y[i]]) - SumOf(x) * SumOf(y)
                      vx == n * SumOf([i \in 1 .. n |-> x[i] * x[i]]) - SumOf(x) * SumOf(x)
                      vy == n * SumOf([i \in 1 .. n |-> y[i] * y[i]]) - SumOf(y) * SumOf(y)
                  IN  IF vx = 0 \/ vy = 0 THEN ZeroCorr
                      ELSE [c |-> c, vx |-> vx, vy |-> vy]

(* abs(corr) > limit, limit in percent *)
AbsExceeds_signed(corr, limit) ==
    corr.c > 0 /\ 10000 * corr.c * corr.c > limit * limit * corr.vx * corr.vy

AbsExceeds(corr, limit) ==
    10000 * corr.c * corr.c > limit * limit * corr.vx * corr.vy

(* _get_price_history: the closes of the window, oldest first *)
get_price_history(d, symbol) ==
    IF symbol \in DOMAIN d.history THEN d.history[symbol] ELSE <<>>

(* _calculate_correlations: the held symbols that get an entry *)
calculate_correlations(d, existing_symbols, new_symbol) ==
    IF get_price_history(d, new_symbol) = <<>> THEN {}
    ELSE {sym \in existing_symbols : get_price_history(d, sym) # <<>>}

check_correlation_limit(d, new_symbol) ==
    IF d.held = {} THEN Return(TRUE)
    ELSE Return(~ \E sym \in calculate_correlations(d, d.held, new_symbol) :
                    AbsExceeds(calculate_correlation(get_price_history(d, new_symbol),
                                                     get_price_history(d, sym)),
                               max_correlation))

(* Position rows are [symbol, quantity, avg_cost, current_price], the     *)
(* last column nullable.  Position.market_value (src/src/models/position.py) *)
market_value(position) ==
    IF Truthy(position.current_price)
        THEN position.quantity * position.current_price[1]
        ELSE position.quantity * position.avg_cost

(* query(Position).filter(Position.quantity > 0).all() *)
OpenPositions(d) == {position \in d.positions : position.quantity > 0}

(* what Returns(prices) multiplies every return by *)
ReturnScale(prices) == LcmOf(SubSeq(prices, 1, Len(prices) - 1))

(* quotients in lowest terms, so that the integers stay small *)
Reduce(a) == LET g == Gcd(Abs(a[1]), a[2]) IN <<a[1] \div g, a[2] \div g>>
FMul(a, b) == Reduce(<<Reduce(a)[1] * Reduce(b)[1], Reduce(a)[2] * Reduce(b)[2]>>)
FAdd(a, b) ==
    Reduce(<<Reduce(a)[1] * Reduce(b)[2] + Reduce(b)[1] * Reduce(a)[2],
             Reduce(a)[2] * Reduce(b)[2]>>)
RECURSIVE FSum(_)
FSum(seq) == IF seq = <<>> THEN Frac(0, 1) ELSE FAdd(Head(seq), FSum(Tail(seq)))

(* n * n * np.var(bench_returns) for the last min_len benchmark returns *)
BenchmarkVariance(bench, min_len) ==
    LET b == LastN(bench, min_len)
    IN  min_len * SumOf([i \in 1 .. min_len |-> b[i] * b[i]]) - SumOf(b) * SumOf(b)

(* one turn of the loop over the positions: <<>> when the position adds    *)
(* nothing to portfolio_betas, <<beta * weight>> when it adds an entry,    *)
(* and a raise when the weight divides by a total value of 0.              *)
(* np.cov divides by min_len - 1 and np.var by min_len.                    *)
PositionBeta(d, position, benchmark_prices, total_value) ==
    LET prices == get_price_history(d, position.symbol)
    IN  IF ~(Len(prices) > 1) THEN Return(<<>>)
        ELSE LET returns == Returns(prices)
                 bench == Returns(benchmark_prices)
                 min_len == IF Len(returns) <= Len(bench) THEN Len(returns) ELSE Len(bench)
                 x == LastN(returns, min_len)
                 b == LastN(bench, min_len)
                 variance == BenchmarkVariance(bench, min_len)
                 covariance == min_len * SumOf([i \in 1 .. min_len |-> x[i] * b[i]])
                               - SumOf(x) * SumOf(b)
             IN  IF ~(variance > 0) THEN Return(<<>>)
                 ELSE IF total_value = 0 THEN Raise("ZeroDivisionError")
                 ELSE LET beta == Frac(covariance * min_len * ReturnScale(benchmark_prices),
                                       (min_len - 1) * ReturnScale(prices) * variance)
                          weight == Frac(market_value(position), total_value)
                      IN  Return(<<FMul(beta, weight)>>)

RECURSIVE SeqOf(_)
SeqOf(S) == IF S = {} THEN <<>>
            ELSE LET x == CHOOSE y \in S : TRUE IN <<x>> \o SeqOf(S \ {x})

calculate_portfolio_beta_result(d, benchmark_symbol) ==
    LET positions == SeqOf(OpenPositions(d))
        benchmark_prices == get_price_history(d, benchmark_symbol)
        total_value == SumOf([i \in DOMAIN positions |-> market_value(positions[i])])
        turns == [i \in DOMAIN positions |->
                     PositionBeta(d, positions[i], benchmark_prices, total_value)]
        added == {i \in DOMAIN turns : turns[i].kind = "return" /\ turns[i].val # <<>>}
    IN  IF positions = <<>> THEN Return(Frac(0, 1))
        ELSE IF Len(benchmark_prices) < 2 THEN Return(Frac(1, 1))
        ELSE IF \E i \in DOMAIN turns : turns[i].kind = "raise"
            THEN Raise("ZeroDivisionError")
        ELSE IF added = {} THEN Return(Frac(1, 1))
        ELSE Return(FSum([k \in 1 .. Cardinality(added) |->
                            turns[CHOOSE i \in added :
                                      Cardinality({j \in added : j <= i}) = k].val[1]]))

calculate_portfolio_beta(benchmark_symbol) ==
    /\ pc = "idle"
    /\ last' = [op |-> "calculate_portfolio_beta", args |-> <<benchmark_symbol>>,
                res |-> calculate_portfolio_beta_result(db, benchmark_symbol)]
    /\ UNCHANGED <<stopVars, riskVars>>

(* calculate_var.  Every weighted return is kept multiplied by scale, the  *)
(* least common multiple of the prices the returns divide by.              *)
RECURSIVE Flatten(_)
Flatten(seqs) == IF seqs = <<>> THEN <<>> ELSE Head(seqs) \o Flatten(Tail(seqs))

RECURSIVE SortedSeq(_)
SortedSeq(seq) ==
    IF seq = <<>> THEN <<>>
    ELSE LET i == CHOOSE k \in DOMAIN seq : \A j \in DOMAIN seq : seq[k] <= seq[j]
         IN  <<seq[i]>> \o SortedSeq(SubSeq(seq, 1, i - 1) \o SubSeq(seq, i + 1, Len(seq)))

(* 100 * np.percentile(values, q), linear interpolation between the two    *)
(* closest ranks                                                           *)
percentile(values, q) ==
    LET a == SortedSeq(values)
        pos == q * (Len(a) - 1)
        lo == (pos \div 100) + 1
        hi == IF pos % 100 = 0 THEN lo ELSE lo + 1
    IN  100 * a[lo] + (pos % 100) * (a[hi] - a[lo])

(* position.quantity * position.current_price if position.current_price else 0 *)
position_value(position) ==
    IF Truthy(position.current_price)
        THEN position.quantity * position.current_price[1]
        ELSE 0

(* the loop of calculate_var and what follows it, for position values      *)
(* given as a function of the open positions                               *)
historical_var(d, confidence, values) ==
    LET positions == SeqOf(OpenPositions(d))
        priced == SelectSeq(positions,
                      LAMBDA position : Len(get_price_history(d, position.symbol)) > 1)
        scale == LcmOf([i \in DOMAIN priced |->
                           ReturnScale(get_price_history(d, priced[i].symbol))])
        weighted(position) ==
            LET prices == get_price_history(d, position.symbol)
                returns == Returns(prices)
            IN  [i \in DOMAIN returns |->
                    returns[i] * (scale \div ReturnScale(prices)) * values[position]]
        portfolio_returns == Flatten([i \in DOMAIN priced |-> weighted(priced[i])])
    IN  IF positions = <<>> THEN Return(Frac(0, 1))
        ELSE IF portfolio_returns = <<>> THEN Return(Frac(0, 1))
        ELSE Return(Reduce(Frac(Abs(percentile(portfolio_returns, 100 - confidence)),
                                100 * scale)))

calculate_var_result(d, confidence) ==
    historical_var(d, confidence, [position \in OpenPositions(d) |-> position_value(position)])

calculate_var(confidence) ==
    /\ pc = "idle"
    /\ last' = [op |-> "calculate_var", args |-> <<confidence>>,
                res |-> calculate_var_result(db, confidence)]
    /\ UNCHANGED <<stopVars, riskVars>>

----------------------------------------------------------------------------
(* RiskManager (src/src/risk/manager.py)                                   *)

(* PerformanceMetrics rows are [age, total_pnl, portfolio_value,           *)
(* current_drawdown, exposure]: age is today - date in days, the four      *)
(* columns are nullable.                                                   *)
RECURSIVE NewestFirst(_)
NewestFirst(rows) ==
    IF rows = {} THEN <<>>
    ELSE LET r == CHOOSE x \in rows : \A y \in rows : x.age <= y.age
         IN  <<r>> \o NewestFirst(rows \ {r})

Rows(d) == {d.metrics[i] : i \in DOMAIN d.metrics}

(* filter(date == today).first() *)
TodayMetrics(d) ==
    IF \E i \in DOMAIN d.metrics : d.metrics[i].age = 0
        THEN Some(d.metrics[CHOOSE i \in DOMAIN d.metrics :
                      /\ d.metrics[i].age = 0
                      /\ \A j \in DOMAIN d.metrics : d.metrics[j].age = 0 => i <= j])
        ELSE None

(* filter(date >= today - 30 days).order_by(date.desc()).all() *)
RecentMetrics(d) == NewestFirst({r \in Rows(d) : r.age <= 30})

check_daily_loss_limit_inclusive(d) ==
    LET found == TodayMetrics(d)
    IN  IF found = None THEN Return(TRUE)
        ELSE LET metrics == found[1]
             IN  IF metrics.total_pnl = None THEN Raise("TypeError")
                 ELSE IF ~(metrics.total_pnl[1] < 0) THEN Return(TRUE)
                 ELSE IF metrics.portfolio_value = None THEN Raise("TypeError")
                 ELSE IF metrics.portfolio_value[1] = 0 THEN Raise("ZeroDivisionError")
                 ELSE Return(FLess(Frac(Abs(metrics.total_pnl[1]),
                                        metrics.portfolio_value[1]),
                                   Frac(daily_loss_limit, 100)))

check_daily_loss_limit(d) ==
    LET found == TodayMetrics(d)
    IN  IF found = None THEN Return(TRUE)
        ELSE LET metrics == found[1]
             IN  IF metrics.total_pnl = None THEN Raise("TypeError")
                 ELSE IF ~(metrics.total_pnl[1] < 0) THEN Return(TRUE)
                 ELSE IF metrics.portfolio_value = None THEN Raise("TypeError")
                 ELSE IF metrics.portfolio_value[1] = 0 THEN Raise("ZeroDivisionError")
                 ELSE Return(~FLess(Frac(daily_loss_limit, 100),
                                    Frac(Abs(metrics.total_pnl[1]),
                                         metrics.portfolio_value[1])))

check_max_drawdown(d) ==
    LET metrics == RecentMetrics(d)
        valued == {metrics[i].portfolio_value[1] :
                      i \in {j \in DOMAIN metrics : Truthy(metrics[j].portfolio_value)}}
    IN  IF metrics = <<>> THEN Return(TRUE)
        ELSE IF valued = {} THEN Raise("ValueError")
        ELSE LET peak_value == CHOOSE v \in valued : \A u \in valued : v >= u
                 current_value == IF Truthy(metrics[1].portfolio_value)
                                      THEN metrics[1].portfolio_value[1] ELSE peak_value
             IN  IF peak_value > 0
                     THEN Return(~FLess(Frac(max_drawdown_limit, 100),
                                        Frac(peak_value - current_value, peak_value)))
                     ELSE Return(TRUE)

(* get_risk_summary: (x / portfolio_value * 100) if portfolio_value else 0 *)
SummaryPct(x, portfolio_value) ==
    IF ~Truthy(portfolio_value) THEN Return(Frac(0, 1))
    ELSE IF x = None THEN Raise("TypeError")
    ELSE Return(Frac(x[1] * 100, portfolio_value[1]))

CanTrade_daily_only(d) == check_daily_loss_limit(d)

(* self._check_daily_loss_limit() and self._check_max_drawdown() *)
CanTrade(d) ==
    LET daily == check_daily_loss_limit(d)
    IN  IF daily.kind = "raise" THEN daily
        ELSE IF ~daily.val THEN Return(FALSE)
        ELSE check_max_drawdown(d)

(* the dictionary is built entry by entry; the first entry that raises    *)
(* ends the call                                                           *)
get_risk_summary_result(d) ==
    LET found == TodayMetrics(d)
        col(name) == IF found = None THEN Some(0) ELSE found[1][name]
        portfolio_value == col("portfolio_value")
        daily_pnl_pct == SummaryPct(col("total_pnl"), portfolio_value)
        current_drawdown_pct == SummaryPct(col("current_drawdown"), portfolio_value)
        exposure_pct == SummaryPct(col("exposure"), portfolio_value)
        can_trade == CanTrade(d)
    IN  IF daily_pnl_pct.kind = "raise" THEN daily_pnl_pct
        ELSE IF current_drawdown_pct.kind = "raise" THEN current_drawdown_pct
        ELSE IF exposure_pct.kind = "raise" THEN exposure_pct
        ELSE IF can_trade.kind = "raise" THEN can_trade
        ELSE Return([portfolio_value |-> portfolio_value,
                     daily_pnl |-> col("total_pnl"),
                     daily_pnl_pct |-> daily_pnl_pct.val,
                     current_drawdown |-> col("current_drawdown"),
                     current_drawdown_pct |-> current_drawdown_pct.val,
                     exposure |-> col("exposure"),
                     exposure_pct |-> exposure_pct.val,
                     daily_loss_limit |-> daily_loss_limit,
                     max_drawdown_limit |-> max_drawdown_limit,
                     max_exposure_limit |-> max_portfolio_exposure,
                     can_trade |-> can_trade.val])

get_risk_summary ==
    /\ pc = "idle"
    /\ last' = [op |-> "get_risk_summary", args |-> <<>>,
                res |-> get_risk_summary_result(db)]
    /\ UNCHANGED <<stopVars, riskVars>>

(* position_value > account_value * max_position_size rejects *)
(* position_value > account_value * limit, the limit in percent *)
position_size_exceeds(value, account_value, limit) ==
    value * 100 > account_value * limit

check_position_size_unlimited(proposed_quantity, price, account_value) == Return(TRUE)

check_position_size(proposed_quantity, price, account_value) ==
    Return(~position_size_exceeds(proposed_quantity * price, account_value, max_position_size))

(* the order in which can_open_position evaluates its gates *)
GateOrderDrawdownFirst == <<"drawdown", "daily", "size", "exposure", "correlation">>

GateOrder == <<"daily", "drawdown", "size", "exposure", "correlation">>

(* args = <<symbol, side, proposed_quantity, price, account_value>> *)
GateOutcome(gate, d, args) ==
    CASE gate = "daily" -> check_daily_loss_limit(d)
      [] gate = "drawdown" -> check_max_drawdown(d)
      [] gate = "size" -> check_position_size(args[3], args[4], args[5])
      [] gate = "exposure" -> check_exposure_limit(args[3] * args[4], args[5])
      [] gate = "correlation" -> check_correlation_limit(d, args[1])

GateReason(gate) ==
    CASE gate = "daily" -> "Daily loss limit exceeded"
      [] gate = "drawdown" -> "Maximum drawdown limit exceeded"
      [] gate = "size" -> "Position size exceeds max limit of 2.0%"
      [] gate = "exposure" -> "Portfolio exposure limit of 50.0% exceeded"
      [] gate = "correlation" -> "Correlation limit with existing positions exceeded"

can_open_position(symbol, side, proposed_quantity, price, account_value) ==
    /\ pc = "idle"
    /\ pc' = GateOrder[1]
    /\ evaluated' = <<>>
    /\ last' = [op |-> "can_open_position",
                args |-> <<symbol, side, proposed_quantity, price, account_value>>,
                res |-> Pending]
    /\ UNCHANGED <<stopVars, db>>

(* one gate of can_open_position: a raise or a failure ends the call, a    *)
(* pass goes on to the next gate, and the last pass returns (True, None)   *)
Gate(gate) ==
    /\ pc = gate
    /\ evaluated' = Append(evaluated, gate)
    /\ LET outcome == GateOutcome(gate, db, last.args)
           at == Len(evaluated) + 1
       IN  IF outcome.kind = "raise"
               THEN /\ last' = [last EXCEPT !.res = outcome]
                    /\ pc' = "idle"
           ELSE IF ~outcome.val
               THEN /\ last' = [last EXCEPT !.res = Return(<<FALSE, GateReason(gate)>>)]
                    /\ pc' = "idle"
           ELSE IF at = Len(GateOrder)
               THEN /\ last' = [last EXCEPT !.res = Return(<<TRUE, "None">>)]
                    /\ pc' = "idle"
           ELSE /\ pc' = GateOrder[at + 1]
                /\ UNCHANGED last
    /\ UNCHANGED <<stopVars, db>>

daily_loss_gate == Gate("daily")
drawdown_gate == Gate("drawdown")
position_size_gate == Gate("size")
exposure_gate == Gate("exposure")
correlation_gate == Gate("correlation")

(* persistence states *)
TodayRows ==
    {[age |-> 0, total_pnl |-> None, portfolio_value |-> Some(100000),
      current_drawdown |-> Some(1000), exposure |-> Some(20000)]}
    \cup [age : {0}, total_pnl : {Some(-5001), Some(-5000), Some(0)},
          portfolio_value : {None, Some(0), Some(85000), Some(100000)},
          current_drawdown : {Some(1000)}, exposure : {Some(20000)}]
    \cup [age : {0}, total_pnl : {Some(0)}, portfolio_value : {None, Some(100000)},
          current_drawdown : {None}, exposure : {None, Some(20000)}]
EarlierRows ==
    [age : {30}, total_pnl : {Some(0)},
     portfolio_value : {None, Some(100000), Some(101000)},
     current_drawdown : {Some(0)}, exposure : {Some(0)}]
OldRows ==
    {[age |-> 31, total_pnl |-> Some(0), portfolio_value |-> Some(200000),
      current_drawdown |-> Some(0), exposure |-> Some(0)]}

MetricsTables ==
    {NewestFirst(t \cup e \cup o) :
        t \in {{}} \cup {{r} : r \in TodayRows},
        e \in {{}} \cup {{r} : r \in EarlierRows},
        o \in {{}} \cup {{r} : r \in OldRows}}

SeriesA == <<1, 2, 1, 2, 1>>
Catalogue ==
    {<<>>,                  \* no rows in the window
     <<2, 4, 2, 4, 2>>,     \* SeriesA times 2
     <<5, 2, 4, 2, 4, 2>>,  \* one more point, the same last five
     <<2, 1, 2, 1, 2>>,     \* moves against SeriesA
     <<1, 1, 2, 2, 1>>,     \* weakly correlated with SeriesA
     <<3, 3, 3, 3, 3>>,     \* no variance
     <<1, 2, 1, 2>>}        \* fewer than 5 points

Portfolios ==
    {[held |-> {}, history |-> [s \in {"AAPL"} |-> a]] : a \in {<<>>, SeriesA}}
    \cup {[held |-> {"MSFT"}, history |-> [s \in {"AAPL", "MSFT"} |->
               IF s = "AAPL" THEN a ELSE m]] : a \in {<<>>, SeriesA}, m \in Catalogue}
    \cup {[held |-> {"MSFT", "GOOG"}, history |-> [s \in {"AAPL", "MSFT", "GOOG"} |->
               IF s = "AAPL" THEN SeriesA ELSE IF s = "MSFT" THEN m ELSE g]] :
               m \in {<<1, 1, 2, 2, 1>>, <<1, 2, 1, 2>>},
               g \in {<<>>, <<2, 1, 2, 1, 2>>}}

Databases ==
    {[metrics |-> t, held |-> f.held, history |-> f.history] :
        t \in MetricsTables, f \in Portfolios}

(* proposed trades: <<quantity, price>> *)
Trades == {<<0, 100>>, <<350, 175>>} \cup {<<q, 100>> : q \in 19 .. (19 + MaxLot)}
Accounts == {0, 100000}

InitRisk ==
    /\ trailing_stops = EmptyDict
    /\ entry_times = EmptyDict
    /\ now = 0
    /\ last = NoCall
    /\ db \in Databases
    /\ pc = "idle"
    /\ evaluated = <<>>
    /\ threads = NoThreads

NextRisk ==
    \/ \E side \in {"buy", "sell"}, t \in Trades, a \in Accounts :
          can_open_position("AAPL", side, t[1], t[2], a)
    \/ daily_loss_gate
    \/ drawdown_gate
    \/ position_size_gate
    \/ exposure_gate
    \/ correlation_gate
    \/ get_risk_summary

SpecRisk == InitRisk /\ [][NextRisk]_vars

----------------------------------------------------------------------------
(* PortfolioRisk over persistence states with positions                    *)

Position(symbol, quantity, avg_cost, current_price) ==
    [symbol |-> symbol, quantity |-> quantity, avg_cost |-> avg_cost,
     current_price |-> current_price]

PositionTables ==
    {{},
     {Position("AAPL", 0, 50, Some(100))},
     {Position("AAPL", 10, 50, Some(100))},
     {Position("AAPL", 10, 50, None)},
     {Position("AAPL", 10, 0, None)},
     {Position("AAPL", 10, 50, Some(100)), Position("MSFT", 5, 20, Some(0))},
     {Position("AAPL", 0, 50, Some(100)), Position("MSFT", 5, 20, None)}}

AaplHistories == {<<>>, <<1>>, <<1, 2>>, SeriesA}
MsftHistories == {<<>>, <<2, 1, 2, 1, 2>>}
SpyHistories == {<<>>, <<3>>, <<3, 3, 3>>, <<1, 2>>, <<1, 2, 4>>, <<1, 2, 1>>, SeriesA}

PortfolioDatabases ==
    {[metrics |-> <<>>,
      held |-> {position.symbol : position \in {q \in t : q.quantity > 0}},
      positions |-> t,
      history |-> [sym \in {"AAPL", "MSFT", "SPY"} |->
                      IF sym = "AAPL" THEN a ELSE IF sym = "MSFT" THEN m ELSE b]] :
        t \in PositionTables, a \in AaplHistories, m \in MsftHistories, b \in SpyHistories}

InitPortfolio ==
    /\ trailing_stops = EmptyDict
    /\ entry_times = EmptyDict
    /\ now = 0
    /\ last = NoCall
    /\ db \in PortfolioDatabases
    /\ pc = "idle"
    /\ evaluated = <<>>
    /\ threads = NoThreads

Confidences == {50, 90, 95, 100}

NextPortfolio ==
    \/ \E benchmark_symbol \in {"SPY", "QQQ"} : calculate_portfolio_beta(benchmark_symbol)
    \/ \E confidence \in Confidences : calculate_var(confidence)

SpecPortfolio == InitPortfolio /\ [][NextPortfolio]_vars

(***************************************************************************)
(* A caller that asks should_exit about its positions and opens every      *)
(* trade can_open_position approves.  The Position table has one row per   *)
(* symbol; opening adds the shares to the symbol's row.  No price history  *)
(* is stored and no performance snapshot, so the daily-loss, drawdown and  *)
(* correlation gates pass.                                                 *)
(***************************************************************************)
MaxOpened == 26
BookSymbols == {"AAPL", "MSFT"}
BookTrades == {<<20, 100>>, <<21, 100>>}
BookAccounts == {100000}
ExitPrices == {95, 98, 100, 102, 105}

TotalMarketValue(d) ==
    LET positions == SeqOf(OpenPositions(d))
    IN  SumOf([i \in DOMAIN positions |-> market_value(positions[i])])

SharesHeld(d) ==
    LET positions == SeqOf(OpenPositions(d))
    IN  SumOf([i \in DOMAIN positions |-> positions[i].quantity])

open_position ==
    /\ pc = "idle"
    /\ last.op = "can_open_position"
    /\ last.res = Return(<<TRUE, "None">>)
    /\ SharesHeld(db) + last.args[3] <= MaxOpened * 20
    /\ LET symbol == last.args[1]
           quantity == last.args[3]
           price == last.args[4]
           rows == {position \in db.positions : position.symbol = symbol}
           held == SumOf([i \in DOMAIN SeqOf(rows) |-> SeqOf(rows)[i].quantity])
       IN  db' = [db EXCEPT
                     !.positions = (db.positions \ rows)
                                   \cup {Position(symbol, held + quantity, price, Some(price))},
                     !.held = db.held \cup {symbol}]
    /\ last' = [op |-> "open_position", args |-> last.args, res |-> Return(<<>>)]
    /\ UNCHANGED <<stopVars, pc, evaluated>>

InitBook ==
    /\ trailing_stops = EmptyDict
    /\ entry_times = EmptyDict
    /\ now = 0
    /\ last = NoCall
    /\ db = [metrics |-> <<>>, held |-> {}, positions |-> {}, history |-> <<>>]
    /\ pc = "idle"
    /\ evaluated = <<>>
    /\ threads = NoThreads

NextBook ==
    \/ \E symbol \in BookSymbols, side \in {"buy", "sell"}, t \in BookTrades, a \in BookAccounts :
          can_open_position(symbol, side, t[1], t[2], a)
    \/ daily_loss_gate
    \/ drawdown_gate
    \/ position_size_gate
    \/ exposure_gate
    \/ correlation_gate
    \/ open_position
    \/ \E c \in ExitPrices, q \in {1, 10}, side \in Sides :
          pc = "idle" /\ should_exit(100, c, q, side)

SpecBook == InitBook /\ [][NextBook]_vars

----------------------------------------------------------------------------
(* Properties                                                              *)

Tracked(s) == s \in DOMAIN trailing_stops
Done(op) == last.op = op /\ last.res.kind # "pending"

(* C1, as stated: from the moment a symbol is tracked until the next       *)
(* clear_position(symbol), no operation lowers its stored stop.            *)
C1_StopNeverDecreases ==
    [][\A s \in Symbols :
        (Tracked(s) /\ ~clear_position(s))
            => (s \in DOMAIN trailing_stops' /\ trailing_stops'[s] >= trailing_stops[s])]_vars

(* C1, amended: between two calls of clear_position(symbol) or             *)
(* register_entry(symbol, ...), the stored stop of a tracked symbol never  *)
(* decreases and the symbol stays tracked.                                 *)
C1_StopNeverDecreasesUnlessReentered ==
    [][\A s \in Symbols :
        (Tracked(s) /\ ~clear_position(s)
                    /\ ~(\E p \in TrailPrices : register_entry(s, p)))
            => (s \in DOMAIN trailing_stops' /\ trailing_stops'[s] >= trailing_stops[s])]_vars

(* C1 witness: update_trailing_stop has just been called on a tracked      *)
(* symbol with a price whose candidate stop is below the stored stop.      *)
C1_LowerCandidateOffered ==
    /\ last.op = "update_trailing_stop"
    /\ last.args[1] \in DOMAIN entry_times
    /\ StopFor(last.args[2]) < trailing_stops[last.args[1]]

(* the five gates in the order the specification numbers them *)
Passes(gate) ==
    LET o == GateOutcome(gate, db, last.args) IN o.kind = "return" /\ o.val
Fails(gate) ==
    LET o == GateOutcome(gate, db, last.args) IN o.kind = "return" /\ ~o.val
Rejected == Done("can_open_position") /\ last.res.kind = "return" /\ ~last.res.val[1]

C3_ApprovedIffAllGatesPass ==
    Done("can_open_position") =>
        LET allPass == \A g \in {"daily", "drawdown", "size", "exposure", "correlation"} :
                           Passes(g)
        IN  /\ last.res.kind = "return"
            /\ (last.res.val = <<TRUE, "None">>) <=> allPass
            /\ ~allPass => (~last.res.val[1] /\ last.res.val[2] \notin {"None", ""})

(* the reasons of can_open_position that contain "exposure", whatever the case *)
MentionsExposure(reason) == reason = "Portfolio exposure limit of 50.0% exceeded"

(* C4: with the default limits and no performance snapshots, a trade of    *)
(* 350 at 175 against an account of 100000 is rejected with a reason that  *)
(* contains "exposure".                                                    *)
C4_OversizedTradeNamesExposure ==
    (Done("can_open_position") /\ db.metrics = <<>>
        /\ last.args[3] = 350 /\ last.args[4] = 175 /\ last.args[5] = 100000)
        => (last.res.kind = "return" /\ ~last.res.val[1]
            /\ MentionsExposure(last.res.val[2]))

(* C5: calculate_size returns an integer >= 1 for every positive price and *)
(* positive account value, whatever the other inputs.                      *)
C5_SizeAtLeastOne ==
    (Done("calculate_size") /\ last.args[1] > 0 /\ last.args[2] > 0)
        => (last.res.kind = "return" /\ last.res.val \in Int /\ last.res.val >= 1)

(* C5 witness: all three candidates were computed, each is 0, and the      *)
(* call returned 1.                                                        *)
C5_AllCandidatesZero ==
    /\ Done("calculate_size")
    /\ LET ms == calculate_size_methods(last.args[1], last.args[2], last.args[3],
                      last.args[4], last.args[5], last.args[6], last.args[7])
       IN  Len(ms) = 3 /\ \A i \in 1 .. 3 : ms[i].size = 0
    /\ last.res = Return(1)

(* C6: calculate_size returns max(1, m), m the least of the candidates     *)
(* computed; the result never exceeds max(1, floor(account * risk / price)) *)
(* nor max(1, c) for the volatility and Kelly candidates c computed from   *)
(* supplied non-zero inputs.                                               *)
C6_MostConservative ==
    (Done("calculate_size") /\ last.args[1] > 0) =>
        LET price == last.args[1]
            account == last.args[2]
            risk == last.args[3]
            vol == last.args[4]
            ms == calculate_size_methods(price, account, risk, vol,
                                         last.args[5], last.args[6], last.args[7])
            sizes == {ms[i].size : i \in DOMAIN ms}
            kellyGiven == \A i \in 5 .. 7 : last.args[i] # None /\ last.args[i][1] # 0
            k == calculate_result(last.args[5][1], last.args[6][1], last.args[7][1],
                                  HalfKelly).val
        IN  /\ last.res.kind = "return"
            /\ \E m \in sizes : (\A x \in sizes : m <= x) /\ last.res.val = Max(1, m)
            /\ ms[1].name = "Fixed %"
            /\ last.res.val <= Max(1, (account * risk) \div (100 * price))
            /\ (vol # None /\ vol[1] > 0)
                   => last.res.val <= Max(1, (account * risk) \div (200 * vol[1]))
            /\ kellyGiven
                   => last.res.val <= Max(1, (account * k[1]) \div (k[2] * price))

(* C6 witness: the Kelly candidate is the least of three, exceeds 1 and is *)
(* what the call returned, below the fixed-fraction size.                  *)
C6_KellyIsSmallest ==
    /\ Done("calculate_size")
    /\ LET ms == calculate_size_methods(last.args[1], last.args[2], last.args[3],
                      last.args[4], last.args[5], last.args[6], last.args[7])
       IN  /\ Len(ms) = 3
           /\ ms[3].size > 1 /\ ms[3].size < ms[1].size /\ ms[3].size < ms[2].size
           /\ last.res = Return(ms[3].size)

(* C7: KellyCriterion.calculate returns exactly 0.02 when avg_loss = 0 or  *)
(* win_rate is 0 or 1, and for every other input returns                   *)
(* fraction * (win_rate*wl - (1 - win_rate))/wl clamped into [0, 0.20].    *)
C7_KellyContract ==
    Done("calculate") =>
        LET w == last.args[1]
            avg_win == last.args[2]
            avg_loss == last.args[3]
            \* (w/100 * wl - (100 - w)/100) / wl / 2 with wl = avg_win/avg_loss
            raw == Frac(w * avg_win - (100 - w) * avg_loss, 200 * avg_win)
            clamped == IF FLess(raw, <<0, 1>>) THEN <<0, 1>>
                       ELSE IF FLess(<<20, 100>>, raw) THEN <<20, 100>> ELSE raw
        IN  /\ last.res.kind = "return"
            /\ IF avg_loss = 0 \/ w = 0 \/ w = 100
                   THEN FEq(last.res.val, <<2, 100>>)
                   ELSE /\ ~FLess(last.res.val, <<0, 1>>)
                        /\ ~FLess(<<20, 100>>, last.res.val)
                        /\ avg_win # 0 => FEq(last.res.val, clamped)

(* C8: should_exit for side "buy" or "long", pnl = (current - entry)/entry: *)
(* a stop-loss exit iff pnl <= -stop_loss_percentage, a take-profit exit   *)
(* iff pnl >= take_profit_percentage, (False, None) otherwise.             *)
C8_LongExit ==
    (Done("should_exit") /\ last.args[4] \in {"buy", "long"}) =>
        LET e == last.args[1]
            c == last.args[2]
            stop == (c - e) * 100 <= -stop_loss_percentage * e
            take == (c - e) * 100 >= take_profit_percentage * e
        IN  /\ (last.res = Return(<<TRUE, "Stop-loss triggered">>)) <=> stop
            /\ (last.res = Return(<<TRUE, "Take-profit reached">>)) <=> take
            /\ (last.res = Return(<<FALSE, "None">>)) <=> (~stop /\ ~take)

(* C8 witness: a long position exactly 2% down has been told to exit.      *)
C8_LongAtStopThreshold ==
    /\ Done("should_exit") /\ last.args[4] = "buy"
    /\ last.args[1] = 100 /\ last.args[2] = 98
    /\ last.res = Return(<<TRUE, "Stop-loss triggered">>)

(* C9: should_exit for a short position, pnl = (entry - current)/entry,    *)
(* applies the same thresholds, and short(current = entry + d) has the     *)
(* verdict of long(current = entry - d).                                   *)
C9_ShortMirrorsLong ==
    (Done("should_exit") /\ last.args[4] \in {"sell", "short"}) =>
        LET e == last.args[1]
            c == last.args[2]
            stop == (e - c) * 100 <= -stop_loss_percentage * e
            take == (e - c) * 100 >= take_profit_percentage * e
        IN  /\ (last.res = Return(<<TRUE, "Stop-loss triggered">>)) <=> stop
            /\ (last.res = Return(<<TRUE, "Take-profit reached">>)) <=> take
            /\ (last.res = Return(<<FALSE, "None">>)) <=> (~stop /\ ~take)
            /\ last.res = should_exit_result(e, e - (c - e), last.args[3], "buy")

(* C9 witness: a short position whose price rose exactly 2% has been told  *)
(* to exit on its stop-loss.                                               *)
C9_ShortAtStopThreshold ==
    /\ Done("should_exit") /\ last.args[4] = "sell"
    /\ last.args[1] = 100 /\ last.args[2] = 102
    /\ last.res = Return(<<TRUE, "Stop-loss triggered">>)

(* C10: update_trailing_stop(symbol, price) stores the candidate           *)
(* price * (1 - trailing_stop_percentage) when the symbol has no stop,     *)
(* replaces a stored stop only by a strictly greater candidate, and        *)
(* changes no other symbol's stop and no entry time.                       *)
C10_UpdateTrailingStopFrame ==
    [][\A s \in Symbols, p \in TrailPrices :
        update_trailing_stop(s, p) =>
            /\ s \in DOMAIN trailing_stops'
            /\ trailing_stops'[s] =
                   IF s \notin DOMAIN trailing_stops THEN StopFor(p)
                   ELSE IF StopFor(p) > trailing_stops[s] THEN StopFor(p)
                   ELSE trailing_stops[s]
            /\ DOMAIN trailing_stops' = DOMAIN trailing_stops \cup {s}
            /\ \A t \in DOMAIN trailing_stops \ {s} : trailing_stops'[t] = trailing_stops[t]
            /\ entry_times' = entry_times]_vars

(* C10 witness: update_trailing_stop left a higher stored stop in place    *)
(* while another symbol is tracked with an entry time.                     *)
C10_CandidateRejected ==
    /\ last.op = "update_trailing_stop"
    /\ StopFor(last.args[2]) < trailing_stops[last.args[1]]
    /\ \E t \in DOMAIN entry_times : t # last.args[1] /\ t \in DOMAIN trailing_stops

(* C11: register_entry(symbol, entry_price) leaves the symbol in both      *)
(* trailing_stops and entry_times, with the stop                           *)
(* entry_price * (1 - trailing_stop_percentage) and the entry time the     *)
(* time of the call, whether or not the symbol was tracked before.         *)
C11_RegisterEntryInitialises ==
    [][\A s \in Symbols, p \in TrailPrices :
        register_entry(s, p) =>
            /\ s \in DOMAIN trailing_stops' /\ s \in DOMAIN entry_times'
            /\ trailing_stops'[s] = p * (100 - trailing_stop_percentage)
            /\ entry_times'[s] = now]_vars

(* C11 witness: register_entry was called after the clock had moved; the   *)
(* symbol holds the stop of the call's price, which is below the highest   *)
(* stop a symbol can hold, and the entry time is the current time.         *)
C11_EntryRegisteredLater ==
    /\ last.op = "register_entry"
    /\ now > 0
    /\ entry_times[last.args[1]] = now
    /\ trailing_stops[last.args[1]] = StopFor(last.args[2])
    /\ last.args[2] = 97

(* C12: check_trailing_stop(symbol, current_price) returns (True, reason)  *)
(* iff the symbol has a stored stop and current_price <= that stop, and    *)
(* (False, None) otherwise, in particular for a symbol with no stored      *)
(* stop; it changes neither map.                                           *)
C12_CheckTrailingStop ==
    [][\A s \in Symbols, p \in TrailPrices :
        check_trailing_stop(s, p) =>
            /\ trailing_stops' = trailing_stops
            /\ entry_times' = entry_times
            /\ last'.res.kind = "return"
            /\ last'.res.val[1] <=> (s \in DOMAIN trailing_stops
                                       /\ p * 100 <= trailing_stops[s])
            /\ last'.res.val[1] => last'.res.val[2] # "None"
            /\ s \notin DOMAIN trailing_stops => last'.res.val = <<FALSE, "None">>]_vars

(* C12 witness: the price checked equals the stored stop and the stop was  *)
(* reported hit.                                                           *)
C12_PriceAtStop ==
    /\ last.op = "check_trailing_stop"
    /\ last.args[1] \in DOMAIN trailing_stops
    /\ last.args[2] * 100 = trailing_stops[last.args[1]]
    /\ last.res.val[1]

(* C13: clear_position(symbol) leaves the symbol in neither map, leaves    *)
(* every other symbol's entries as they were, raises nothing whichever of  *)
(* the maps hold the symbol, and called on a symbol in neither map changes *)
(* nothing (so a second call gives the state of the first).                *)
C13_ClearPosition ==
    [][\A s \in Symbols :
        clear_position(s) =>
            /\ s \notin DOMAIN trailing_stops' /\ s \notin DOMAIN entry_times'
            /\ DOMAIN trailing_stops' = DOMAIN trailing_stops \ {s}
            /\ DOMAIN entry_times' = DOMAIN entry_times \ {s}
            /\ \A t \in DOMAIN trailing_stops' : trailing_stops'[t] = trailing_stops[t]
            /\ \A t \in DOMAIN entry_times' : entry_times'[t] = entry_times[t]
            /\ last'.res.kind = "return"
            /\ (s \notin DOMAIN trailing_stops /\ s \notin DOMAIN entry_times)
                   => (trailing_stops' = trailing_stops /\ entry_times' = entry_times)]_vars

(* C13 witness: clear_position has removed a symbol while the other symbol *)
(* keeps a stop and an entry time.                                         *)
C13_OtherSymbolKept ==
    /\ last.op = "clear_position"
    /\ last.args[1] \notin DOMAIN trailing_stops
    /\ last.args[1] \notin DOMAIN entry_times
    /\ \E t \in Symbols : t # last.args[1] /\ t \in DOMAIN trailing_stops
                                            /\ t \in DOMAIN entry_times

(* C14: check_exposure_limit(new_position_value, account_value) returns    *)
(* True iff new_position_value / account_value <= max_portfolio_exposure,  *)
(* the boundary included: 50000 of 100000 passes, 50001 fails, 0 passes.   *)
C14_ExposureLimitInclusive ==
    (Done("check_exposure_limit") /\ last.args[2] > 0) =>
        LET value == last.args[1]
            account == last.args[2]
        IN  /\ last.res.kind = "return"
            /\ last.res.val <=> (100 * value <= max_portfolio_exposure * account)
            /\ (value = 50000 /\ account = 100000) => last.res.val
            /\ (value = 50001 /\ account = 100000) => ~last.res.val
            /\ value = 0 => last.res.val

(* C14 witness: exactly half of the account was proposed and accepted.     *)
C14_ExactlyAtLimit ==
    /\ Done("check_exposure_limit")
    /\ last.args = <<50000, 100000>>
    /\ last.res = Return(TRUE)

(* C15: check_correlation_limit(new_symbol) returns False iff some held    *)
(* symbol with a non-empty price history has a correlation c with          *)
(* new_symbol such that |c| > max_correlation; it returns True with no     *)
(* held positions, when new_symbol has no price history, and when every    *)
(* pair is skipped or has fewer than 5 aligned points.  Stated for the     *)
(* calls of can_open_position that reached the correlation gate.           *)
C15_CorrelationLimit ==
    (Done("can_open_position") /\ Len(evaluated) = 5) =>
        LET new == last.args[1]
            hist(s) == IF s \in DOMAIN db.history THEN db.history[s] ELSE <<>>
            aligned(s) == IF Len(hist(s)) <= Len(hist(new)) THEN Len(hist(s))
                          ELSE Len(hist(new))
            exceeds(s) ==
                /\ hist(s) # <<>>
                /\ LET r == calculate_correlation(hist(new), hist(s))
                   IN  10000 * r.c * r.c > max_correlation * max_correlation * r.vx * r.vy
            refused == last.res.val = <<FALSE, "Correlation limit with existing positions exceeded">>
        IN  /\ evaluated[5] = "correlation"
            /\ last.res.kind = "return"
            /\ refused <=> \E s \in db.held : exceeds(s)
            /\ ~refused <=> last.res.val = <<TRUE, "None">>
            /\ db.held = {} => ~refused
            /\ hist(new) = <<>> => ~refused
            /\ (\A s \in db.held : hist(s) = <<>> \/ aligned(s) < 5) => ~refused

(* C15 witness: the only held symbol moves exactly against the new symbol  *)
(* (correlation -1) and the correlation gate refused the trade.            *)
C15_NegativeCorrelationRefused ==
    /\ Done("can_open_position") /\ Len(evaluated) = 5
    /\ db.held = {"MSFT"}
    /\ db.history["AAPL"] = <<1, 2, 1, 2, 1>>
    /\ db.history["MSFT"] = <<2, 1, 2, 1, 2>>
    /\ last.res.val = <<FALSE, "Correlation limit with existing positions exceeded">>

(* what the i-th gate of the call in `last` was seen to do *)
GateRan(i) == last.op = "can_open_position" /\ Len(evaluated) >= i
GateRefused(i, reason) ==
    /\ Done("can_open_position") /\ Len(evaluated) = i
    /\ last.res = Return(<<FALSE, reason>>)
GateAccepted(i) ==
    \/ Len(evaluated) > i
    \/ Len(evaluated) = i /\ (pc # "idle" \/ last.res = Return(<<TRUE, "None">>))

(* C16: the daily-loss gate fails iff there is a snapshot for today with   *)
(* total_pnl < 0 and |total_pnl| / portfolio_value > daily_loss_limit; it  *)
(* passes with no snapshot for today, with total_pnl >= 0, and when the    *)
(* ratio equals the limit.  (A snapshot with total_pnl < 0 whose           *)
(* portfolio_value is null or 0 has no ratio; the gate then neither fails  *)
(* nor passes.)                                                            *)
C16_DailyLossGate ==
    GateRan(1) =>
        LET today == {r \in Rows(db) : r.age = 0}
            loss(r) == r.total_pnl # None /\ r.total_pnl[1] < 0
            ratioDefined(r) == r.portfolio_value # None /\ r.portfolio_value[1] # 0
            over(r) == /\ r.portfolio_value[1] > 0
                       /\ 100 * (-r.total_pnl[1]) > daily_loss_limit * r.portfolio_value[1]
            equal(r) == 100 * (-r.total_pnl[1]) = daily_loss_limit * r.portfolio_value[1]
        IN  /\ evaluated[1] = "daily"
            /\ GateRefused(1, "Daily loss limit exceeded")
                   <=> \E r \in today : loss(r) /\ ratioDefined(r) /\ over(r)
            /\ today = {} => GateAccepted(1)
            /\ (\E r \in today : r.total_pnl # None /\ r.total_pnl[1] >= 0) => GateAccepted(1)
            /\ (\E r \in today : loss(r) /\ ratioDefined(r) /\ equal(r)) => GateAccepted(1)
            /\ (\E r \in today : loss(r) /\ ratioDefined(r) /\ ~over(r)) => GateAccepted(1)

(* C16 witness: today's loss is exactly daily_loss_limit of the portfolio  *)
(* value and the call went past the daily-loss gate.                       *)
C16_LossExactlyAtLimit ==
    /\ GateRan(2)
    /\ \E r \in Rows(db) : r.age = 0 /\ r.total_pnl = Some(-5000)
                                     /\ r.portfolio_value = Some(100000)

(* C17: the drawdown gate fails iff, over the snapshots of the last 30     *)
(* days, (peak - latest) / peak > max_drawdown_limit, peak the greatest    *)
(* portfolio value in the window and latest the portfolio value of the     *)
(* most recent snapshot; it passes when the window has no snapshots.       *)
C17_DrawdownGate ==
    GateRan(2) =>
        LET window == {r \in Rows(db) : r.age <= 30}
            valued == {r \in window : r.portfolio_value # None}
            peak == (CHOOSE r \in valued :
                        \A q \in valued : r.portfolio_value[1] >= q.portfolio_value[1]
                    ).portfolio_value[1]
            latest == (CHOOSE r \in window : \A q \in window : r.age <= q.age).portfolio_value
            over == /\ valued # {}
                    /\ latest # None
                    /\ peak > 0
                    /\ 100 * (peak - latest[1]) > max_drawdown_limit * peak
        IN  /\ evaluated[2] = "drawdown"
            /\ GateRefused(2, "Maximum drawdown limit exceeded") <=> (window # {} /\ over)
            /\ window = {} => GateAccepted(2)

(* C18: get_risk_summary returns can_trade equal to (daily-loss gate       *)
(* passes) and (drawdown gate passes) for the current persistence state,   *)
(* and with no snapshot for today it returns 0 for portfolio value, daily  *)
(* P&L, drawdown, exposure and the three percentages instead of failing.   *)
C18_RiskSummary ==
    Done("get_risk_summary") =>
        LET today == {r \in Rows(db) : r.age = 0}
            summary == last.res.val
        IN  /\ last.res.kind = "return"
            /\ summary.can_trade <=> (check_daily_loss_limit(db) = Return(TRUE)
                                        /\ check_max_drawdown(db) = Return(TRUE))
            /\ today = {} =>
                   /\ summary.portfolio_value = Some(0)
                   /\ summary.daily_pnl = Some(0)
                   /\ summary.current_drawdown = Some(0)
                   /\ summary.exposure = Some(0)
                   /\ summary.daily_pnl_pct[1] = 0
                   /\ summary.current_drawdown_pct[1] = 0
                   /\ summary.exposure_pct[1] = 0

(* C19: can_open_position and get_risk_summary end with a verdict for      *)
(* every persistence state the schema allows and every account value,      *)
(* a rejection being the pair (False, reason); they never raise.           *)
C19_NeverRaises ==
    /\ Done("can_open_position") =>
           /\ last.res.kind = "return"
           /\ last.res.val[1] \in BOOLEAN
           /\ ~last.res.val[1] => last.res.val[2] # "None"
    /\ Done("get_risk_summary") =>
           /\ last.res.kind = "return"
           /\ last.res.val.can_trade \in BOOLEAN

(* C20: calculate_portfolio_beta returns 1.0 whenever no position          *)
(* contributes a beta: when the benchmark has fewer than 2 price points,   *)
(* when no position has at least 2 price points or the benchmark variance  *)
(* is 0, and when there are no open positions at all.                      *)
C20_BetaDefaultsToOne ==
    Done("calculate_portfolio_beta") =>
        LET bench == get_price_history(db, last.args[1])
            open == {position \in db.positions : position.quantity > 0}
            points(position) == Len(get_price_history(db, position.symbol))
            aligned(position) ==
                IF points(position) <= Len(bench) THEN points(position) - 1
                ELSE Len(bench) - 1
            contributes(position) ==
                /\ Len(bench) >= 2
                /\ points(position) >= 2
                /\ BenchmarkVariance(Returns(bench), aligned(position)) > 0
        IN  (\A position \in open : ~contributes(position))
                => (last.res.kind = "return" /\ FEq(last.res.val, <<1, 1>>))

(* C21: the StopLossManager takes no lock.  A step lowers the stored stop  *)
(* of a symbol that stays tracked only when it is the write of an          *)
(* update_trailing_stop thread that acts on stale knowledge: it compared   *)
(* against a stop that is no longer the stored one, or it found the symbol *)
(* untracked and the symbol is tracked by now.  A thread whose comparison  *)
(* read the stop that is still stored (as every thread does under          *)
(* serialized calls) never lowers it.  A call fails with KeyError only at  *)
(* a read or delete that follows its own membership test, when another     *)
(* thread has removed the symbol in between.                               *)
StaleWriter(t, s) ==
    /\ threads[t].op = "update_trailing_stop"
    /\ threads[t].args[1] = s
    /\ threads'[t].stored = Some(trailing_stops'[s])
    /\ \/ threads[t].at = "write" /\ threads[t].seen # Some(trailing_stops[s])
       \/ threads[t].at = "init"

FailsNow(t) == threads[t].res # Raise("KeyError") /\ threads'[t].res = Raise("KeyError")

C21_NoMutualExclusion ==
    [][ /\ \A s \in Symbols :
              (Tracked(s) /\ s \in DOMAIN trailing_stops' /\ trailing_stops'[s] < trailing_stops[s])
                  => \E t \in Updaters : threads'[t] # threads[t] /\ StaleWriter(t, s)
        /\ \A t \in Threads :
              FailsNow(t) =>
                  \/ threads[t].at \in {"compare", "log", "read", "del_stops"}
                        /\ threads[t].args[1] \notin DOMAIN trailing_stops
                  \/ threads[t].at = "del_times"
                        /\ threads[t].args[1] \notin DOMAIN entry_times
        /\ \A t \in Threads :
              (threads[t].at = "read" /\ threads'[t] # threads[t]
                    /\ threads[t].args[1] \notin DOMAIN trailing_stops)
                  => threads'[t].res = Raise("KeyError") ]_vars

(* both updates of AAPL compared against the stop of the entry, the higher *)
(* one was stored first and the lower one replaced it; on MSFT the clear   *)
(* fell between the membership test and the read of the check              *)
C21_LostUpdateAndFailedRead ==
    /\ threads # NoThreads
    /\ threads["U1"].args = <<"AAPL", 99>> /\ threads["U1"].stored = Some(StopFor(99))
    /\ threads["U2"].args = <<"AAPL", 98>> /\ threads["U2"].stored = Some(StopFor(98))
    /\ threads["U1"].seen = Some(StopFor(97)) /\ threads["U2"].seen = Some(StopFor(97))
    /\ Tracked("AAPL") /\ trailing_stops["AAPL"] = StopFor(98)
    /\ threads["D"].args = <<"MSFT">> /\ threads["D"].at = "done"
    /\ threads["K"].res = Raise("KeyError") /\ threads["K"].args[1] = "MSFT"

(* C22: whenever win_rate, avg_win and avg_loss are all supplied to        *)
(* calculate_size, the value 0 included, the Kelly candidate                *)
(* floor(account_value * calculate(win_rate, avg_win, avg_loss) / price)   *)
(* is among the candidates and bounds the result.                          *)
C22_KellyWheneverSupplied ==
    (/\ Done("calculate_size")
     /\ last.args[5] # None /\ last.args[6] # None /\ last.args[7] # None) =>
        LET price == last.args[1]
            account == last.args[2]
            ms == calculate_size_methods(price, account, last.args[3], last.args[4],
                      last.args[5], last.args[6], last.args[7])
            k == calculate_result(last.args[5][1], last.args[6][1], last.args[7][1], HalfKelly)
        IN  k.kind = "return" =>
                /\ \E j \in DOMAIN ms :
                       ms[j].name = "Kelly" /\ ms[j].size = kelly_size(price, account, k.val)
                /\ last.res.kind = "return"
                /\ last.res.val <= Max(1, kelly_size(price, account, k.val))

(* C23: calculate_var returns the absolute value of the (1 - confidence)   *)
(* percentile of the pooled returns, each position's returns weighted by   *)
(* its market value (quantity * current_price, quantity * avg_cost when no *)
(* current price is known); the value is never negative, and is 0 with no  *)
(* open position or no open position with at least 2 price points.         *)
C23_ValueAtRisk ==
    Done("calculate_var") =>
        LET open == OpenPositions(db)
        IN  /\ last.res.kind = "return"
            /\ last.res = historical_var(db, last.args[1],
                              [position \in open |-> market_value(position)])
            /\ ~FLess(last.res.val, <<0, 1>>)
            /\ (\A position \in open : Len(get_price_history(db, position.symbol)) < 2)
                   => FEq(last.res.val, <<0, 1>>)

(* C24: check_time_stop(symbol, max_hold_hours) returns (True, reason) iff *)
(* the symbol has an entry time and the time elapsed since it is strictly  *)
(* greater than max_hold_hours; it returns (False, None) otherwise, so at  *)
(* exactly the threshold and for a symbol without an entry time; it        *)
(* changes neither map.                                                    *)
C24_CheckTimeStop ==
    [][\A s \in Symbols, h \in HoldHours :
        check_time_stop(s, h) =>
            /\ trailing_stops' = trailing_stops
            /\ entry_times' = entry_times
            /\ now' = now
            /\ last'.res.kind = "return"
            /\ last'.res.val[1] <=> (s \in DOMAIN entry_times /\ now - entry_times[s] > h)
            /\ last'.res.val[1] => last'.res.val[2] # "None"
            /\ ~last'.res.val[1] => last'.res.val = <<FALSE, "None">>
            /\ (s \in DOMAIN entry_times /\ now - entry_times[s] = h)
                   => last'.res.val = <<FALSE, "None">>
            /\ s \notin DOMAIN entry_times => last'.res.val = <<FALSE, "None">>]_vars

(* C24 witness: the clock has not moved since the entry, the limit checked *)
(* is 0 hours, so the elapsed time equals the limit, and the time stop was *)
(* not reported                                                            *)
C24_ElapsedEqualsLimit ==
    /\ last.op = "check_time_stop"
    /\ last.args[1] \in DOMAIN entry_times
    /\ last.args[2] = 0
    /\ now = 0
    /\ now - entry_times[last.args[1]] = last.args[2]
    /\ last.res = Return(<<FALSE, "None">>)

(* C26: in every state between calls, every symbol with an entry time has  *)
(* a stored stop.                                                          *)
C26_EntryTimeImpliesStop == DOMAIN entry_times \subseteq DOMAIN trailing_stops

(* C26 witness: update_trailing_stop on an untracked symbol has left a     *)
(* stop without an entry time                                              *)
C26_StopWithoutEntryTime ==
    /\ last.op = "update_trailing_stop"
    /\ last.args[1] \in DOMAIN trailing_stops
    /\ last.args[1] \notin DOMAIN entry_times
    /\ DOMAIN entry_times # {}

(* C25: for account_value > 0, a trade that passes the position-size gate  *)
(* passes the exposure gate, under the configured limits and under every   *)
(* pair of limits with max_position_size <= max_portfolio_exposure, so     *)
(* can_open_position never returns the exposure reason.                    *)
LimitPcts == {0, 1, 2, 3, 50, 61, 62, 100}

C27_RecommendedSizePassesGate ==
    (Done("calculate_position_size") /\ last.args[2] > 0 /\ last.args[3] > 0) =>
        /\ last.res.kind = "return"
        /\ check_position_size(last.res.val, last.args[2], last.args[3]).val

(* C28: for a fixed persistence state, when get_risk_summary reports       *)
(* can_trade = False every can_open_position call returns (False, reason)  *)
(* with the daily-loss or the drawdown reason, and when it reports         *)
(* can_trade = True no can_open_position call returns either reason.       *)
HaltReasons == {GateReason("daily"), GateReason("drawdown")}

C28_SummaryAgreesWithGates ==
    Done("can_open_position") =>
        LET summary == get_risk_summary_result(db)
        IN  summary.kind = "return" =>
                /\ ~summary.val.can_trade =>
                       /\ last.res.kind = "return"
                       /\ ~last.res.val[1]
                       /\ last.res.val[2] \in HaltReasons
                /\ summary.val.can_trade =>
                       ~(last.res.kind = "return" /\ last.res.val[2] \in HaltReasons)

(* C28 witness: the summary reports can_trade = False for a state whose    *)
(* daily-loss gate passes, and can_open_position was refused by the        *)
(* drawdown gate                                                           *)
C28_HaltedByDrawdown ==
    /\ Done("can_open_position")
    /\ get_risk_summary_result(db).kind = "return"
    /\ ~get_risk_summary_result(db).val.can_trade
    /\ last.res = Return(<<FALSE, GateReason("drawdown")>>)
    /\ evaluated = <<"daily", "drawdown">>

(* C29: when every approved trade is opened as a position, the market      *)
(* values of the open positions never add up to more than                  *)
(* max_portfolio_exposure * account_value.                                 *)
C29_TotalExposureWithinLimit ==
    \A account_value \in BookAccounts :
        TotalMarketValue(db) * 100 <= max_portfolio_exposure * account_value

(* C30: should_exit applies the long rule exactly when side, lower-cased,  *)
(* is "buy" or "long" and the short rule for every other string, the empty *)
(* and unrecognised ones included; quantity has no effect on the result;   *)
(* the verdict of can_open_position is the one it gives for any other      *)
(* side.                                                                   *)
LongSides == {"buy", "BUY", "long", "Long"}

(* the verdict the gates determine for args: that of the first gate, in    *)
(* order, that does not pass                                               *)
VerdictFor(d, args) ==
    LET stopped == {i \in DOMAIN GateOrder :
                       LET o == GateOutcome(GateOrder[i], d, args)
                       IN  o.kind = "raise" \/ ~o.val}
    IN  IF stopped = {} THEN Return(<<TRUE, "None">>)
        ELSE LET i == CHOOSE k \in stopped : \A j \in stopped : k <= j
                 o == GateOutcome(GateOrder[i], d, args)
             IN  IF o.kind = "raise" THEN o ELSE Return(<<FALSE, GateReason(GateOrder[i])>>)

C30_SideAndQuantity ==
    /\ Done("should_exit") =>
           /\ last.res = IF last.args[4] \in LongSides
                             THEN check_long_exit(last.args[1], last.args[2])
                             ELSE check_short_exit(last.args[1], last.args[2])
           /\ \A q \in {1, 10, 1000} :
                  should_exit_result(last.args[1], last.args[2], q, last.args[4]) = last.res
    /\ Done("can_open_position") =>
           \A side \in Sides : last.res = VerdictFor(db, [last.args EXCEPT ![2] = side])

(* C30 witness: should_exit with an unrecognised side and a price 2% above *)
(* the entry reported the stop-loss of the short rule, where the long rule *)
(* reports nothing                                                         *)
C30_UnrecognisedSideIsShort ==
    /\ Done("should_exit")
    /\ last.args[4] = "hold"
    /\ last.args[1] = 100 /\ last.args[2] = 102
    /\ last.res = Return(<<TRUE, "Stop-loss triggered">>)
    /\ check_long_exit(100, 102) = Return(<<FALSE, "None">>)

====
